---- MODULE Spec2Model ----
(***************************************************************************)
(* A model of cdbbulksearch.py: the extraction of position descriptors     *)
(* (load_epdlist, load_epds), the worker wrapper (wrapcdbsearch), the      *)
(* in-flight counter (TaskCounter), the signal handler (on_sigint) and the *)
(* control loop of __main__ that submits tasks to a process pool and       *)
(* reports their results in submission order.                              *)
(*                                                                         *)
(* Text is modelled token by token: a line of a file is the sequence of    *)
(* its whitespace-separated tokens, a descriptor (an "EPD" string of the   *)
(* program) is the sequence of the tokens that the program joins with      *)
(* single blanks, so two descriptors are equal as strings exactly when     *)
(* their token sequences are equal.                                        *)
(***************************************************************************)
EXTENDS Integers, Sequences, FiniteSets, TLC

\* Python's None, among strings, among integers and among records.
None == "None"
NoInt == 0 - 1000
NoTask == [kind |-> "none"]
NoFile == [kind |-> "none"]
NoResult == [kind |-> "none"]

Min(a, b) == IF a < b THEN a ELSE b
Max(a, b) == IF a > b THEN a ELSE b

\* s[:n] of Python for n >= 0.
Take(s, n) == SubSeq(s, 1, Min(n, Len(s)))

\* The index of the first token of s equal to x, 0 when there is none.
FirstIdx(s, x) ==
  IF \E i \in 1..Len(s) : s[i] = x
  THEN CHOOSE i \in 1..Len(s) : s[i] = x /\ \A j \in 1..(i - 1) : s[j] # x
  ELSE 0

(***************************************************************************)
(* The chess library, as far as the program uses it.  A board is modelled  *)
(* by its number of pieces (chess.popcount(board.occupied)), which is all  *)
(* the program reads of it.                                                *)
(***************************************************************************)

\* CDB_EGTB: the piece count at or below which a position is left out.
CDB_EGTB == 7

\* chess.STARTING_FEN[:-3]: the first four fields of the initial position.
STARTING_FEN_4 == <<"p32", "w", "KQkq", "-">>

\* The piece placements (first FEN field) of the model and their piece counts.
PlacementCount ==
  [p32 |-> 32, p9 |-> 9, p8 |-> 8, p7 |-> 7]

Placements == DOMAIN PlacementCount

\* The moves of the model's lines that capture a piece when they are played.
CaptureMoves == {"d4e5", "e5d4", "b7a8q"}

\* chess.Board(epd) raises ValueError unless epd starts with a piece placement.
BoardValid(epd) == Len(epd) >= 1 /\ epd[1] \in Placements

\* chess.popcount(chess.Board(epd).occupied)
BoardCount(epd) == PlacementCount[epd[1]]

\* board.push(chess.Move.from_uci(m)): a capture takes one piece off the board.
Push(cnt, m) == IF m \in CaptureMoves THEN cnt - 1 ELSE cnt

(***************************************************************************)
(* Characters.  TLC has no access to the characters of a string, so the    *)
(* tokens whose characters the program inspects are spelled out here.      *)
(***************************************************************************)
Chars ==
  [a2a3  |-> <<"a", "2", "a", "3">>,
   h7h6  |-> <<"h", "7", "h", "6">>,
   d4e5  |-> <<"d", "4", "e", "5">>,
   e5d4  |-> <<"e", "5", "d", "4">>,
   b7a8q |-> <<"b", "7", "a", "8", "q">>,
   b7a8k |-> <<"b", "7", "a", "8", "k">>,
   a2a9  |-> <<"a", "2", "a", "9">>,
   e2e4  |-> <<"e", "2", "e", "4">>,
   e7e5  |-> <<"e", "7", "e", "5">>,
   e2    |-> <<"e", "2">>,
   bm    |-> <<"b", "m">>,
   w     |-> <<"w">>,
   b     |-> <<"b">>,
   KQkq  |-> <<"K", "Q", "k", "q">>,
   dash  |-> <<"-">>,
   n0    |-> <<"0">>,
   n1    |-> <<"1">>,
   n12   |-> <<"1", "2">>]

\* The characters of a token: tokens are named by their text, except those
\* that are no TLA+ field names ("-", "0", "1", "12").
CharsOf(tok) ==
  CASE tok = "-"  -> Chars["dash"]
    [] tok = "0"  -> Chars["n0"]
    [] tok = "1"  -> Chars["n1"]
    [] tok = "12" -> Chars["n12"]
    [] tok \in DOMAIN Chars -> Chars[tok]
    [] OTHER -> <<"?">>

Digits == {"0", "1", "2", "3", "4", "5", "6", "7", "8", "9"}

\* str.isnumeric(): non-empty and every character numeric.
isnumeric(tok) ==
  LET c == CharsOf(tok) IN Len(c) > 0 /\ \A i \in 1..Len(c) : c[i] \in Digits

(***************************************************************************)
(* load_epdlist: a file is the sequence of its lines, a line the sequence  *)
(* of its tokens after line.strip(); ";" and "#" are tokens of their own.  *)
(***************************************************************************)

\* The condition of the loop over the move tokens under which it breaks.
InvalidMove(m) ==
  LET c == CharsOf(m) IN
    \/ Len(c) < 4
    \/ Len(c) > 5
    \/ ~({c[1], c[3]} \subseteq {"a", "b", "c", "d", "e", "f", "g", "h"})
    \/ ~({c[2], c[4]} \subseteq {"1", "2", "3", "4", "5", "6", "7", "8"})
    \/ (Len(c) = 5 /\ ~(c[5] \in {"q", "r", "b", "n"}))

\* The move tokens appended to epdMoves: those before the first invalid one.
RECURSIVE ValidPrefix(_)
ValidPrefix(mv) ==
  IF mv = <<>> \/ InvalidMove(Head(mv)) THEN <<>>
  ELSE <<Head(mv)>> \o ValidPrefix(Tail(mv))

\* line.split(";")[0]
BeforeOpcodes(line) ==
  LET k == FirstIdx(line, ";") IN IF k = 0 THEN line ELSE SubSeq(line, 1, k - 1)

\* line.replace("startpos", chess.STARTING_FEN[:-3])
RECURSIVE ReplaceStartpos(_)
ReplaceStartpos(line) ==
  IF line = <<>> THEN <<>>
  ELSE (IF Head(line) = "startpos" THEN STARTING_FEN_4 ELSE <<Head(line)>>)
       \o ReplaceStartpos(Tail(line))

\* The base position kept of the fields before the moves clause.
BaseFields(fields) ==
  LET epd == Take(fields, 6) IN
    IF Len(epd) = 6 /\ ~(isnumeric(epd[5]) /\ isnumeric(epd[6]))
    THEN Take(epd, 4)
    ELSE epd

\* The descriptor appended to epdlist for one non-empty, non-comment line.
NormalizeLine(line) ==
  LET l     == ReplaceStartpos(BeforeOpcodes(line))
      k     == FirstIdx(l, "moves")
      epd   == BaseFields(IF k = 0 THEN l ELSE SubSeq(l, 1, k - 1))
      moves == ValidPrefix(IF k = 0 THEN <<>> ELSE SubSeq(l, k + 1, Len(l)))
  IN  IF moves # <<>> THEN epd \o <<"moves">> \o moves ELSE epd

RECURSIVE load_epdlist(_)
load_epdlist(file) ==
  IF file = <<>> THEN <<>>
  ELSE LET line == Head(file) IN
         (IF line = <<>> \/ Head(line) = "#" THEN <<>> ELSE <<NormalizeLine(line)>>)
         \o load_epdlist(Tail(file))


(***************************************************************************)
(* load_epds.  A file is a record: kind is "pgn" for a name ending in      *)
(* .pgn or .pgn.gz and "list" otherwise, readable says whether opening and *)
(* reading it succeeds, lines holds the lines of a list file and games the *)
(* games of a pgn file (each the FEN fields of its starting position and   *)
(* the moves of its mainline).                                             *)
(***************************************************************************)

\* PlyBound as it would be without the [None] that load_epds puts in front of
\* the moves: a negative bound counts from the last move, not from past it.
PlyBound_NoBasePly(p, n, dflt) ==
  IF p = NoInt THEN dflt
  ELSE IF p < 0 THEN Max(0, p + n - 1)
  ELSE Min(p, n)

\* The window bound of plyBegin / plyEnd for a line of n plies (n = len(moves),
\* the base position included); dflt is the value used for None.
PlyBound(p, n, dflt) ==
  IF p = NoInt THEN dflt
  ELSE IF p < 0 THEN Max(0, p + n)
  ELSE Min(p, n)

plyB(plyBegin, n) == PlyBound(plyBegin, n, 0)
plyE(plyEnd, n) == PlyBound(plyEnd, n, n)

\* The loop as it would be if " moves" were appended to epd at ply 0 before
\* the descriptor of that ply is added.
RECURSIVE WalkPlies_MovesFirst(_, _, _, _, _, _, _, _)
WalkPlies_MovesFirst(mvs, ply, epd, cnt, B, E, TBsearch, acc) ==
  IF ply >= Len(mvs) THEN acc
  ELSE LET m    == mvs[ply + 1]
           epd1 == IF m # None THEN epd \o <<m>> ELSE epd \o <<"moves">>
           cnt1 == IF m # None THEN Push(cnt, m) ELSE cnt
       IN  IF ~TBsearch /\ cnt1 <= CDB_EGTB THEN acc
           ELSE IF B <= ply /\ ply < E
                THEN WalkPlies_MovesFirst(mvs, ply + 1, epd1, cnt1, B, E, TBsearch,
                                          acc \cup {epd1})
           ELSE IF ply >= E THEN acc
           ELSE WalkPlies_MovesFirst(mvs, ply + 1, epd1, cnt1, B, E, TBsearch, acc)

\* The loop as it would be with the window check before the cutoff check: a
\* ply of the window is added whatever its piece count.
RECURSIVE WalkPlies_WindowFirst(_, _, _, _, _, _, _, _)
WalkPlies_WindowFirst(mvs, ply, epd, cnt, B, E, TBsearch, acc) ==
  IF ply >= Len(mvs) THEN acc
  ELSE LET m    == mvs[ply + 1]
           epd1 == IF m # None THEN epd \o <<m>> ELSE epd
           cnt1 == IF m # None THEN Push(cnt, m) ELSE cnt
           epd2 == IF m = None THEN epd1 \o <<"moves">> ELSE epd1
           acc1 == IF B <= ply /\ ply < E THEN acc \cup {epd1} ELSE acc
       IN  IF ply >= E THEN acc
           ELSE IF ~TBsearch /\ cnt1 <= CDB_EGTB THEN acc1
           ELSE WalkPlies_WindowFirst(mvs, ply + 1, epd2, cnt1, B, E, TBsearch, acc1)

\* The loop "for ply, m in enumerate(moves)" from ply on: mvs is moves (None
\* first), epd the descriptor built so far, cnt the piece count of board, acc
\* the descriptors the line has added so far.
RECURSIVE WalkPlies(_, _, _, _, _, _, _, _)
WalkPlies(mvs, ply, epd, cnt, B, E, TBsearch, acc) ==
  IF ply >= Len(mvs) THEN acc
  ELSE LET m    == mvs[ply + 1]
           epd1 == IF m # None THEN epd \o <<m>> ELSE epd
           cnt1 == IF m # None THEN Push(cnt, m) ELSE cnt
           epd2 == IF m = None THEN epd1 \o <<"moves">> ELSE epd1
       IN  IF ~TBsearch /\ cnt1 <= CDB_EGTB THEN acc
           ELSE IF B <= ply /\ ply < E
                THEN WalkPlies(mvs, ply + 1, epd2, cnt1, B, E, TBsearch, acc \cup {epd1})
           ELSE IF ply >= E THEN acc
           ELSE WalkPlies(mvs, ply + 1, epd2, cnt1, B, E, TBsearch, acc)

\* epd.partition(" moves"): the base position of an entry of epdlist.
EntryBase(entry) ==
  LET k == FirstIdx(entry, "moves") IN
    IF k = 0 THEN entry ELSE SubSeq(entry, 1, k - 1)

\* [None] + moves.split()
EntryMoves(entry) ==
  LET k == FirstIdx(entry, "moves") IN
    <<None>> \o (IF k = 0 THEN <<>> ELSE SubSeq(entry, k + 1, Len(entry)))

\* The descriptors one entry of epdlist adds to epds (the body of the loop
\* over epdlist, for an entry whose base position chess.Board accepts).
ExpandEntry(entry, plyBegin, plyEnd, TBsearch) ==
  LET epd == EntryBase(entry)
      mvs == EntryMoves(entry)
  IN  WalkPlies(mvs, 0, epd, BoardCount(epd),
                plyB(plyBegin, Len(mvs)), plyE(plyEnd, Len(mvs)), TBsearch, {})

\* The entry of epdlist made of one game of a pgn file.
GameEntry(game) ==
  IF game.moves # <<>> THEN game.fen \o <<"moves">> \o game.moves ELSE game.fen

\* epdlist as it would be if the exclusion were applied to the entries of a
\* pgn file as well.
EpdList_ExcludeInPgnToo(file, excludeFile) ==
  LET epdlist == load_epdlist(file.lines)
      all     == IF file.kind = "pgn"
                 THEN {GameEntry(file.games[i]) : i \in 1..Len(file.games)}
                 ELSE {epdlist[i] : i \in 1..Len(epdlist)}
  IN  IF excludeFile # NoFile
      THEN LET excludelist == load_epdlist(excludeFile.lines)
           IN  all \ {excludelist[i] : i \in 1..Len(excludelist)}
      ELSE all

\* epdlist before the expansion, as a set: the loop over it adds to a set, so
\* neither the order nor the multiplicity of its entries changes the result.
EpdList(file, excludeFile) ==
  IF file.kind = "pgn"
  THEN {GameEntry(file.games[i]) : i \in 1..Len(file.games)}
  ELSE LET epdlist == load_epdlist(file.lines)
           all     == {epdlist[i] : i \in 1..Len(epdlist)}
       IN  IF excludeFile # NoFile
           THEN LET excludelist == load_epdlist(excludeFile.lines)
                IN  all \ {excludelist[i] : i \in 1..Len(excludelist)}
           ELSE all

\* load_epds raises: a file cannot be read, or chess.Board rejects a base.
load_epds_raises(file, excludeFile) ==
  \/ ~file.readable
  \/ (file.kind # "pgn" /\ excludeFile # NoFile /\ ~excludeFile.readable)
  \/ \E entry \in EpdList(file, excludeFile) : ~BoardValid(EntryBase(entry))

\* The set epds of load_epds before list(epds), when it does not raise.
load_epds(file, excludeFile, plyBegin, plyEnd, TBsearch) ==
  UNION {ExpandEntry(entry, plyBegin, plyEnd, TBsearch) :
           entry \in EpdList(file, excludeFile)}


(***************************************************************************)
(* wrapcdbsearch, run by a worker process of the pool.                     *)
(***************************************************************************)

\* What the search does with one position: it writes lines to sys.stdout and
\* either returns or raises an Exception with a message.  In the model the
\* search of a position with 8 pieces raises, every other search returns.
cdbsearch(epd, depthLimit) ==
  IF BoardCount(epd) = 8
  THEN [printed |-> <<>>, raised |-> TRUE, msg |-> "timeout"]
  ELSE [printed |-> <<<<"report">>>>, raised |-> FALSE, msg |-> None]

\* The line printed by the except clause of wrapcdbsearch.
ErrorLine(epd, msg) ==
  <<" error: while searching EPD", epd, "caught exception", msg>>

\* wrapcdbsearch as it would be without its try / except: the exception of
\* the search leaves the call, and sys.stdout stays bound to the buffer.
wrapcdbsearch_NoExcept(epd, depthLimit, stdout0) ==
  LET search == cdbsearch(epd, depthLimit)
  IN  [raised |-> search.raised, value |-> search.printed, msg |-> search.msg,
       stdout |-> IF search.raised THEN "mystdout" ELSE stdout0]

\* wrapcdbsearch called in a process whose sys.stdout is stdout0: what the call
\* does (it returns value, or it raises), and sys.stdout after it.
wrapcdbsearch(epd, depthLimit, stdout0) ==
  LET old_stdout == stdout0
      search     == cdbsearch(epd, depthLimit)
      mystdout   == IF search.raised
                    THEN search.printed \o <<ErrorLine(epd, search.msg)>>
                    ELSE search.printed
  IN  [raised |-> FALSE, value |-> mystdout, msg |-> None, stdout |-> old_stdout]

(***************************************************************************)
(* The program: its arguments, the main thread (the coordinator), the      *)
(* process pool with its manager thread, and the signal handler.           *)
(***************************************************************************)

\* The number of cycle boundaries a run of the model crosses after the first
\* load (--forever never stops).
MaxCycles == 3

\* The number of tasks a run of the model submits at most.
MaxTasks == 4

VARIABLES
  args,        \* the parsed command line
  pc,          \* where the main thread is
  first,       \* first
  epdIdx,      \* epdIdx
  epds,        \* epds: the list of descriptors of the current cycle
  depthLimit,  \* depthLimit (unbound before the first load)
  task,        \* task: the awaited task or None
  tasks,       \* tasks: the deque of submitted, not yet awaited tasks
  tmp,         \* the value of _counter read by the main thread in inc / dec
  counter,     \* taskCounter._counter
  futs,        \* the futures, by submission number
  mgr,         \* the pool's manager thread: the done callback it is running
  broken,      \* the pool is broken: a worker process ended abnormally
  children,    \* the number of live worker processes
  sys_stdout,  \* sys.stdout of a worker process between two calls
  exitStatus,  \* the exit status of the process, NoInt while it runs
  out,         \* what the main thread has printed, in order: the kind of each
               \* block and the future it is about
  header,      \* the progress header printed for the awaited task, in full
  diag,        \* what the last load at a cycle boundary printed
  cycle,       \* history: the number of cycle boundaries crossed
  submitted,   \* what was submitted for each future not yet dropped
  exc,         \* the exception raised in the main thread and not yet handled
  ld           \* the extraction checked on its own: its input and its result

vars == <<args, pc, first, epdIdx, epds, depthLimit, task, tasks, tmp, counter,
          futs, mgr, broken, children, sys_stdout, exitStatus, out, header,
          diag, cycle, submitted, exc, ld>>

\* The files the run of the model may find under args.filename when it loads.
LineA == <<"p9", "w", "-", "-", "moves", "a2a3">>
LineB == <<"p8", "b", "-", "-">>

ListFile(lines) == [kind |-> "list", readable |-> TRUE, lines |-> lines, games |-> <<>>]

Unreadable == [kind |-> "list", readable |-> FALSE, lines |-> <<>>, games |-> <<>>]

Files == {ListFile(<<LineA, LineB>>), ListFile(<<LineA>>), Unreadable}

\* At the first load the file may also be empty.
FilesAt(isFirst) == IF isFirst THEN Files \cup {ListFile(<<>>)} ELSE Files

\* The command lines of the model: single-pass runs with one or two worker
\* processes, cyclic runs with one, with --shuffle or with --reload or plain.
ArgSets ==
  [forever : {FALSE}, reload : {FALSE}, shuffle : BOOLEAN,
   depthLimit : {5}, maxDepthLimit : {NoInt, 7}, bulkConcurrency : {1, 2},
   plyBegin : {-1}, plyEnd : {NoInt}, TBsearch : {FALSE}, excludeFile : {NoFile}]
  \cup
  [forever : {TRUE}, reload : {FALSE}, shuffle : BOOLEAN,
   depthLimit : {5}, maxDepthLimit : {NoInt, 7}, bulkConcurrency : {1},
   plyBegin : {-1}, plyEnd : {NoInt}, TBsearch : {FALSE}, excludeFile : {NoFile}]
  \cup
  [forever : {TRUE}, reload : {TRUE}, shuffle : {FALSE},
   depthLimit : {5}, maxDepthLimit : {NoInt, 7}, bulkConcurrency : {1},
   plyBegin : {-1}, plyEnd : {NoInt}, TBsearch : {FALSE}, excludeFile : {NoFile}]

NoLoad == [phase |-> "off"]

Init ==
  /\ args \in ArgSets
  /\ pc = "sigquit"
  /\ first = TRUE
  /\ epdIdx = 0
  /\ epds = <<>>
  /\ depthLimit = NoInt
  /\ task = NoTask
  /\ tasks = <<>>
  /\ tmp = NoInt
  /\ counter = 0
  /\ futs = <<>>
  /\ mgr = [f |-> 0, at |-> "idle", tmp |-> NoInt]
  /\ broken = FALSE
  /\ children = 0
  /\ sys_stdout = "stdout"
  /\ exitStatus = NoInt
  /\ out = <<>>
  /\ header = NoTask
  /\ diag = "none"
  /\ cycle = 0
  /\ submitted = <<>>
  /\ exc = None
  /\ ld = NoLoad

\* The main thread has left the program.
Ended == pc \in {"done", "fatal", "crashed", "killed"}

\* The process ends abruptly at p with an exit status: what it held in memory
\* is gone, what it has printed stays.
Exits(p, status) ==
  /\ pc' = p
  /\ exitStatus' = status
  /\ first' = FALSE
  /\ epdIdx' = 0
  /\ epds' = <<>>
  /\ depthLimit' = NoInt
  /\ task' = NoTask
  /\ tasks' = <<>>
  /\ tmp' = NoInt
  /\ counter' = 0
  /\ futs' = <<>>
  /\ mgr' = [f |-> 0, at |-> "idle", tmp |-> NoInt]
  /\ broken' = FALSE
  /\ sys_stdout' = "stdout"
  /\ cycle' = 0
  /\ submitted' = <<>>
  /\ diag' = "none"
  /\ header' = NoTask
  /\ UNCHANGED <<args, out, ld>>


(***************************************************************************)
(* Signals.  SIGINT and SIGTERM are bound to on_sigint before the model    *)
(* starts (pc = "sigquit"); the handler runs in the main thread.           *)
(***************************************************************************)

\* The main thread is inside the try block of one of the two statements
\* "try: signal.signal(...) except: pass".
InBareExcept == pc \in {"sigquit", "sigbreak"}

\* Where an exception raised at pc is handled: the bare except clauses catch
\* whatever is raised in their try blocks, SystemExit included.
Handler(at) ==
  CASE at = "sigquit"  -> "sigquit_except"
    [] at = "sigbreak" -> "sigbreak_except"
    [] OTHER           -> "killed"

\* try: signal.signal(signal.SIGQUIT, on_sigint) except: pass
InstallSigquit ==
  /\ pc = "sigquit"
  /\ pc' = "sigbreak"
  /\ UNCHANGED <<args, first, epdIdx, epds, depthLimit, task, tasks, tmp, counter,
                 futs, mgr, broken, children, sys_stdout, exitStatus, out, header, diag, cycle,
                 submitted, exc, ld>>

\* try: signal.signal(signal.SIGBREAK, on_sigint) except: pass, then the
\* creation of the pool and of the loop's variables (their values are Init's).
InstallSigbreak ==
  /\ pc = "sigbreak"
  /\ pc' = "top"
  /\ UNCHANGED <<args, first, epdIdx, epds, depthLimit, task, tasks, tmp, counter,
                 futs, mgr, broken, children, sys_stdout, exitStatus, out, header, diag, cycle,
                 submitted, exc, ld>>

\* A signal is delivered and on_sigint runs: it kills every live child and
\* calls sys.exit(1), which raises SystemExit in the main thread.
on_sigint ==
  /\ ~Ended
  /\ exc' = "SystemExit"
  /\ children' = 0
  /\ IF Handler(pc) # "killed"
     THEN /\ pc' = Handler(pc)
          /\ UNCHANGED <<args, first, epdIdx, epds, depthLimit, task, tasks, tmp,
                         counter, futs, mgr, broken, sys_stdout, exitStatus, out,
                         header, diag, cycle, submitted, ld>>
     ELSE Exits("killed", 1)

\* "except: pass": the exception is dropped and the program goes on.
ExceptPass ==
  /\ pc \in {"sigquit_except", "sigbreak_except"}
  /\ exc' = None
  /\ pc' = IF pc = "sigquit_except" THEN "sigbreak" ELSE "top"
  /\ UNCHANGED <<args, first, epdIdx, epds, depthLimit, task, tasks, tmp, counter,
                 futs, mgr, broken, children, sys_stdout, exitStatus, out, header,
                 diag, cycle, submitted, ld>>

(***************************************************************************)
(* The control loop: the first if statement of an iteration (pc = "top").  *)
(***************************************************************************)

\* The orders list(epds) and random.shuffle(epds) may give a set: every order
\* when shuffled, one fixed order (that of the process's hashing) otherwise.
Orders(S, shuffle) ==
  LET all == {q \in [1..Cardinality(S) -> S] : \A i, j \in DOMAIN q : i # j => q[i] # q[j]}
  IN  IF shuffle THEN all ELSE {CHOOSE q \in all : TRUE}

\* The update of depthLimit as it would be without "min(depthLimit,
\* args.maxDepthLimit)".
NextDepthLimit_NoMax(isFirst, old, a) ==
  IF isFirst THEN a.depthLimit ELSE old + 1

\* depthLimit after the update at a cycle boundary.
NextDepthLimit(isFirst, old, a) ==
  LET d == IF isFirst THEN a.depthLimit ELSE old + 1
  IN  IF a.maxDepthLimit # NoInt THEN Min(d, a.maxDepthLimit) ELSE d

\* The loop wants to cycle: "if first or args.forever".
Cycles == first \/ args.forever

\* The condition of the break as it would be without "task is None".
ExitCondition_TasksOnly == Len(tasks) = 0

\* The condition of the break.
ExitCondition == task = NoTask /\ Len(tasks) = 0

\* The try statement as it would be if epds were cleared before load_epds is
\* called: a failed reload leaves the empty list.
TryLoad_ClearsFirst(file, isFirst, old, a) ==
  IF ~(isFirst \/ a.reload)
  THEN [raises |-> FALSE, lists |-> {old}, diag |-> None]
  ELSE IF load_epds_raises(file, a.excludeFile)
  THEN IF isFirst
       THEN [raises |-> TRUE, lists |-> {<<>>}, diag |-> None]
       ELSE [raises |-> FALSE, lists |-> {<<>>},
             diag |-> "Error while trying to reload file. Continue with old EPD list."]
  ELSE [raises |-> FALSE,
        lists |-> Orders(load_epds(file, a.excludeFile, a.plyBegin, a.plyEnd, a.TBsearch),
                         a.shuffle),
        diag |-> "Prepared unique EPDs for exploration."]

\* The try statement around load_epds and random.shuffle at a cycle boundary,
\* for the file found under args.filename: whether the exception propagates
\* (raise), the lists epds may be bound to after it, and what it prints.
TryLoad(file, isFirst, old, a) ==
  IF ~(isFirst \/ a.reload)
  THEN [raises |-> FALSE, lists |-> {old}, diag |-> None]
  ELSE IF load_epds_raises(file, a.excludeFile)
  THEN IF isFirst
       THEN [raises |-> TRUE, lists |-> {old}, diag |-> None]
       ELSE [raises |-> FALSE, lists |-> {old},
             diag |-> "Error while trying to reload file. Continue with old EPD list."]
  ELSE [raises |-> FALSE,
        lists |-> Orders(load_epds(file, a.excludeFile, a.plyBegin, a.plyEnd, a.TBsearch),
                         a.shuffle),
        diag |-> "Prepared unique EPDs for exploration."]

\* epdIdx == len(epds) and the loop cycles: (re)load, set depthLimit, rewind.
TopCycle ==
  /\ pc = "top"
  /\ epdIdx = Len(epds)
  /\ Cycles
  /\ first \/ cycle < MaxCycles
  /\ \E file \in FilesAt(first) :
       LET r == TryLoad(file, first, epds, args) IN
         IF r.raises
         THEN /\ Exits("fatal", 1)
              /\ exc' = "LoadError"
              /\ UNCHANGED children
         ELSE /\ epds' \in r.lists
              /\ diag' = IF r.diag = None THEN diag ELSE r.diag
              /\ depthLimit' = NextDepthLimit(first, depthLimit, args)
              /\ first' = FALSE
              /\ epdIdx' = 0
              /\ cycle' = IF first THEN 0 ELSE cycle + 1
              /\ pc' = "await"
              /\ UNCHANGED <<args, task, tasks, tmp, counter, futs, mgr, broken,
                             children, sys_stdout, exitStatus, out, header,
                             submitted, exc, ld>>

\* epdIdx == len(epds), no cycling, nothing pending: break, then
\* executor.shutdown() and the end of the program.
TopBreak ==
  /\ pc = "top"
  /\ epdIdx = Len(epds)
  /\ ~Cycles
  /\ ExitCondition
  /\ pc' = "done"
  /\ exitStatus' = 0
  /\ UNCHANGED <<args, first, epdIdx, epds, depthLimit, task, tasks, tmp, counter,
                 futs, mgr, broken, children, sys_stdout, out, header, diag, cycle, submitted,
                 exc, ld>>

\* epdIdx == len(epds), no cycling, tasks still pending: nothing to do here.
TopDrain ==
  /\ pc = "top"
  /\ epdIdx = Len(epds)
  /\ ~Cycles
  /\ ~ExitCondition
  /\ pc' = "await"
  /\ UNCHANGED <<args, first, epdIdx, epds, depthLimit, task, tasks, tmp, counter,
                 futs, mgr, broken, children, sys_stdout, exitStatus, out, header, diag, cycle,
                 submitted, exc, ld>>

\* taskCounter.get() < 2 * args.bulkConcurrency
BelowCeiling == counter < 2 * args.bulkConcurrency

\* The task appended to tasks for the future submitted last.
TaskTuple ==
  [epds |-> epds, epdIdx |-> epdIdx, depthLimit |-> depthLimit, future |-> Len(futs)]

\* executor.submit(...) on a broken pool raises BrokenProcessPool, which
\* nothing catches: the program ends with a traceback.
TopSubmitBroken ==
  /\ pc = "top"
  /\ epdIdx # Len(epds)
  /\ BelowCeiling
  /\ broken
  /\ Exits("crashed", 1)
  /\ exc' = "BrokenProcessPool"
  /\ UNCHANGED children

\* executor.submit(...): a new pending future; the pool starts a worker
\* process when it has fewer than max_workers.
TopSubmit ==
  /\ pc = "top"
  /\ epdIdx # Len(epds)
  /\ BelowCeiling
  /\ ~broken
  /\ Len(futs) < MaxTasks
  /\ futs' = Append(futs, [state |-> "pending", cb |-> FALSE, result |-> NoResult])
  /\ children' = IF children < args.bulkConcurrency THEN children + 1 ELSE children
  /\ submitted' = Append(submitted,
                         [epd |-> epds[epdIdx + 1], depthLimit |-> depthLimit,
                          epdIdx |-> epdIdx, total |-> Len(epds), cycle |-> cycle])
  /\ pc' = "inc_read"
  /\ UNCHANGED <<args, first, epdIdx, epds, depthLimit, task, tasks, tmp, counter,
                 mgr, broken, sys_stdout, exitStatus, out, header, diag, cycle, exc, ld>>

\* The ceiling is reached: no submission in this iteration.
TopFull ==
  /\ pc = "top"
  /\ epdIdx # Len(epds)
  /\ ~BelowCeiling
  /\ pc' = "await"
  /\ UNCHANGED <<args, first, epdIdx, epds, depthLimit, task, tasks, tmp, counter,
                 futs, mgr, broken, children, sys_stdout, exitStatus, out, header, diag, cycle,
                 submitted, exc, ld>>


(***************************************************************************)
(* taskCounter.inc() and future.add_done_callback(taskCounter.dec) in the  *)
(* main thread.  "self._counter += 1" reads _counter and then writes it:   *)
(* the manager thread of the pool, which runs the done callbacks, may run  *)
(* between the two.                                                        *)
(***************************************************************************)

\* inc(): the read of self._counter.
IncRead ==
  /\ pc = "inc_read"
  /\ tmp' = counter
  /\ pc' = "inc_write"
  /\ UNCHANGED <<args, first, epdIdx, epds, depthLimit, task, tasks, counter,
                 futs, mgr, broken, children, sys_stdout, exitStatus, out, header, diag, cycle,
                 submitted, exc, ld>>

\* inc(): the write of self._counter; then add_done_callback: a future that
\* has not finished keeps the callback for the manager thread, after which
\* the task is appended and epdIdx moves on; for a finished future the main
\* thread calls dec itself.
IncWrite ==
  /\ pc = "inc_write"
  /\ counter' = tmp + 1
  /\ IF futs[Len(futs)].state = "pending"
     THEN /\ futs' = [futs EXCEPT ![Len(futs)].cb = TRUE]
          /\ tasks' = Append(tasks, TaskTuple)
          /\ epdIdx' = epdIdx + 1
          /\ tmp' = NoInt
          /\ pc' = "await"
     ELSE /\ pc' = "dec_read"
          /\ tmp' = NoInt
          /\ UNCHANGED <<futs, tasks, epdIdx>>
  /\ UNCHANGED <<args, first, epds, depthLimit, task, mgr, broken, children,
                 sys_stdout, exitStatus, out, header, diag, cycle, submitted, exc, ld>>

\* dec(fn) called by add_done_callback in the main thread: the read.
DecRead ==
  /\ pc = "dec_read"
  /\ tmp' = counter
  /\ pc' = "dec_write"
  /\ UNCHANGED <<args, first, epdIdx, epds, depthLimit, task, tasks, counter,
                 futs, mgr, broken, children, sys_stdout, exitStatus, out, header, diag, cycle,
                 submitted, exc, ld>>

\* dec(fn) in the main thread: the write; then tasks.append and epdIdx += 1.
DecWrite ==
  /\ pc = "dec_write"
  /\ counter' = tmp - 1
  /\ tasks' = Append(tasks, TaskTuple)
  /\ epdIdx' = epdIdx + 1
  /\ tmp' = NoInt
  /\ pc' = "await"
  /\ UNCHANGED <<args, first, epds, depthLimit, task, futs, mgr, broken, children,
                 sys_stdout, exitStatus, out, header, diag, cycle, submitted, exc, ld>>

(***************************************************************************)
(* The control loop: the second if statement of an iteration.              *)
(***************************************************************************)

\* The header as it would be if it printed the loop's current depthLimit and
\* len(epds) instead of those kept in the task.
Header_CurrentValues(t) ==
  [future |-> t.future, epd |-> t.epds[t.epdIdx + 1],
   ordinal |-> t.epdIdx + 1, total |-> Len(epds), depthLimit |-> depthLimit]

\* The progress header printed for a task.
Header(t) ==
  [future |-> t.future, epd |-> t.epds[t.epdIdx + 1],
   ordinal |-> t.epdIdx + 1, total |-> Len(t.epds), depthLimit |-> t.depthLimit]

\* tasks.pop(): the task taken from the right end and the deque left.
pop(q) == [item |-> q[Len(q)], rest |-> SubSeq(q, 1, Len(q) - 1)]

\* tasks.popleft(): the task taken and the deque left.
popleft(q) == [item |-> Head(q), rest |-> Tail(q)]

\* task is None and tasks is not empty: popleft and print the header.
AwaitPop ==
  /\ pc = "await"
  /\ task = NoTask
  /\ Len(tasks) > 0
  /\ task' = popleft(tasks).item
  /\ tasks' = popleft(tasks).rest
  /\ out' = Append(out, [kind |-> "header", future |-> task'.future])
  /\ header' = Header(task')
  /\ pc' = "top"
  /\ UNCHANGED <<args, first, epdIdx, epds, depthLimit, tmp, counter, futs, mgr,
                 broken, children, sys_stdout, exitStatus, diag, cycle, submitted,
                 exc, ld>>

\* task is None and tasks is empty.
AwaitNone ==
  /\ pc = "await"
  /\ task = NoTask
  /\ Len(tasks) = 0
  /\ pc' = "top"
  /\ UNCHANGED <<args, first, epdIdx, epds, depthLimit, task, tasks, tmp, counter,
                 futs, mgr, broken, children, sys_stdout, exitStatus, out, header, diag, cycle,
                 submitted, exc, ld>>

\* What the poll prints for a finished future: its result, or the error line
\* of "except Exception as ex".
Printed(t) ==
  IF futs[t.future].result.kind = "value"
  THEN [kind |-> "report", future |-> t.future]
  ELSE [kind |-> "error", future |-> t.future]

\* task[3].result(timeout=0.01) on a finished future; the future is dropped.
AwaitResult ==
  /\ pc = "await"
  /\ task # NoTask
  /\ futs[task.future].state = "finished"
  /\ out' = Append(out, Printed(task))
  /\ task' = NoTask
  /\ futs' = [futs EXCEPT ![task.future] = [state |-> "dropped", cb |-> FALSE, result |-> NoResult]]
  /\ submitted' = [submitted EXCEPT ![task.future] = NoTask]
  /\ header' = NoTask
  /\ pc' = "top"
  /\ UNCHANGED <<args, first, epdIdx, epds, depthLimit, tasks, tmp, counter, mgr,
                 broken, children, sys_stdout, exitStatus, diag, cycle, exc,
                 ld>>

\* task[3].result(timeout=0.01) raises TimeoutError: pass.
AwaitTimeout ==
  /\ pc = "await"
  /\ task # NoTask
  /\ futs[task.future].state = "pending"
  /\ pc' = "top"
  /\ UNCHANGED <<args, first, epdIdx, epds, depthLimit, task, tasks, tmp, counter,
                 futs, mgr, broken, children, sys_stdout, exitStatus, out, header, diag, cycle,
                 submitted, exc, ld>>

(***************************************************************************)
(* The pool: its worker processes run the submitted calls in submission    *)
(* order, its manager thread sets the results of the futures and runs      *)
(* their done callbacks, one future at a time.                             *)
(***************************************************************************)

\* The process is still running its threads.
Alive == pc \notin {"fatal", "crashed", "killed"}

\* A worker process is running the call of future f.
Running(f) ==
  /\ futs[f].state = "pending"
  /\ Cardinality({g \in 1..(f - 1) : futs[g].state = "pending"}) < children

\* The manager thread after it has finished future f.
AfterFinish(f) ==
  IF futs[f].cb THEN [f |-> f, at |-> "read", tmp |-> NoInt] ELSE mgr

\* A worker has run wrapcdbsearch for future f and the manager sets the
\* future's result (or the exception the call raised).
Complete(f) ==
  /\ Alive
  /\ ~broken
  /\ Running(f)
  /\ mgr.at = "idle"
  /\ LET r == wrapcdbsearch(submitted[f].epd, submitted[f].depthLimit, sys_stdout)
       IN  /\ futs' = [futs EXCEPT ![f].state = "finished",
                                   ![f].result =
                                      IF r.raised
                                      THEN [kind |-> "exception", msg |-> r.msg]
                                      ELSE [kind |-> "value", text |-> r.value]]
           /\ sys_stdout' = r.stdout
  /\ mgr' = AfterFinish(f)
  /\ UNCHANGED <<args, pc, first, epdIdx, epds, depthLimit, task, tasks, tmp,
                 counter, broken, children, exitStatus, out, header, diag, cycle, submitted,
                 exc, ld>>

\* A worker process ends abnormally: the manager marks the pool broken and
\* the remaining worker processes are terminated.
BreakPool ==
  /\ Alive
  /\ ~broken
  /\ \E f \in 1..Len(futs) : Running(f)
  /\ mgr.at = "idle"
  /\ broken' = TRUE
  /\ children' = 0
  /\ UNCHANGED <<args, pc, first, epdIdx, epds, depthLimit, task, tasks, tmp,
                 counter, futs, mgr, sys_stdout, exitStatus, out, header, diag, cycle,
                 submitted, exc, ld>>

\* The manager of a broken pool fails the pending futures, oldest first.
FailBroken(f) ==
  /\ Alive
  /\ broken
  /\ futs[f].state = "pending"
  /\ \A g \in 1..(f - 1) : futs[g].state # "pending"
  /\ mgr.at = "idle"
  /\ futs' = [futs EXCEPT ![f].state = "finished",
                          ![f].result = [kind |-> "exception", msg |-> "BrokenProcessPool"]]
  /\ mgr' = AfterFinish(f)
  /\ UNCHANGED <<args, pc, first, epdIdx, epds, depthLimit, task, tasks, tmp,
                 counter, broken, children, sys_stdout, exitStatus, out, header, diag, cycle,
                 submitted, exc, ld>>

\* dec(fn) in the manager thread: the read of self._counter.
MgrRead ==
  /\ Alive
  /\ mgr.at = "read"
  /\ mgr' = [mgr EXCEPT !.at = "write", !.tmp = counter]
  /\ UNCHANGED <<args, pc, first, epdIdx, epds, depthLimit, task, tasks, tmp,
                 counter, futs, broken, children, sys_stdout, exitStatus, out, header, diag,
                 cycle, submitted, exc, ld>>

\* dec(fn) in the manager thread: the write of self._counter.
MgrWrite ==
  /\ Alive
  /\ mgr.at = "write"
  /\ counter' = mgr.tmp - 1
  /\ mgr' = [f |-> 0, at |-> "idle", tmp |-> NoInt]
  /\ UNCHANGED <<args, pc, first, epdIdx, epds, depthLimit, task, tasks, tmp,
                 futs, broken, children, sys_stdout, exitStatus, out, header, diag, cycle,
                 submitted, exc, ld>>

Next ==
  \/ InstallSigquit
  \/ InstallSigbreak
  \/ on_sigint
  \/ ExceptPass
  \/ TopCycle
  \/ TopBreak
  \/ TopDrain
  \/ TopSubmitBroken
  \/ TopSubmit
  \/ TopFull
  \/ IncRead
  \/ IncWrite
  \/ DecRead
  \/ DecWrite
  \/ AwaitPop
  \/ AwaitNone
  \/ AwaitResult
  \/ AwaitTimeout
  \/ \E f \in 1..Len(futs) : Complete(f)
  \/ BreakPool
  \/ \E f \in 1..Len(futs) : FailBroken(f)
  \/ MgrRead
  \/ MgrWrite

Spec == Init /\ [][Next]_vars

(***************************************************************************)
(* load_epds on its own: one call on a list file of one line, for every    *)
(* line, window and TBsearch of the sets below.                            *)
(***************************************************************************)

\* The number of move tokens a line of these files has at most.
MaxMoves == 3

\* The move tokens of the lines: a quiet move, a capture, and a token the
\* loop of load_epdlist over the moves stops at.
LoadMoves == {"a2a3", "d4e5", "e2"}

\* The base positions of the lines: 9 and 8 pieces.
LoadBases == {<<"p9", "w", "-", "-">>, <<"p8", "b", "-", "-">>}

\* The line "startpos moves e2e4 e7e5".
StartposLine == <<"startpos", "moves", "e2e4", "e7e5">>

\* The lines: a base position, then nothing or a moves clause; and the line
\* of the initial position.
LoadLines ==
  {b \o (IF m = <<>> THEN <<>> ELSE <<"moves">> \o m) :
     b \in LoadBases, m \in UNION {[1..k -> LoadMoves] : k \in 0..MaxMoves}}
  \cup {StartposLine}

\* The values of --plyBegin and --plyEnd: None and the integers that reach
\* past both ends of the longest line.
PlyValues == {NoInt} \cup (0 - (MaxMoves + 2))..(MaxMoves + 2)

InitLoad ==
  /\ args = [forever |-> FALSE, reload |-> FALSE, shuffle |-> FALSE,
             depthLimit |-> 5, maxDepthLimit |-> NoInt, bulkConcurrency |-> 1,
             plyBegin |-> 0 - 1, plyEnd |-> NoInt, TBsearch |-> FALSE,
             excludeFile |-> NoFile]
  /\ pc = "load_epds"
  /\ first = TRUE
  /\ epdIdx = 0
  /\ epds = <<>>
  /\ depthLimit = NoInt
  /\ task = NoTask
  /\ tasks = <<>>
  /\ tmp = NoInt
  /\ counter = 0
  /\ futs = <<>>
  /\ mgr = [f |-> 0, at |-> "idle", tmp |-> NoInt]
  /\ broken = FALSE
  /\ children = 0
  /\ sys_stdout = "stdout"
  /\ exitStatus = NoInt
  /\ out = <<>>
  /\ header = NoTask
  /\ diag = "none"
  /\ cycle = 0
  /\ submitted = <<>>
  /\ exc = None
  /\ ld \in [phase : {"call"}, line : LoadLines, plyBegin : PlyValues,
              plyEnd : PlyValues, TBsearch : BOOLEAN, result : {{}}]

\* load_epds(filename, None, plyBegin, plyEnd, TBsearch) returns.
LoadReturn ==
  /\ ld.phase = "call"
  /\ ~load_epds_raises(ListFile(<<ld.line>>), NoFile)
  /\ ld' = [ld EXCEPT !.phase = "returned",
                      !.result = load_epds(ListFile(<<ld.line>>), NoFile,
                                           ld.plyBegin, ld.plyEnd, ld.TBsearch)]
  /\ UNCHANGED <<args, pc, first, epdIdx, epds, depthLimit, task, tasks, tmp,
                 counter, futs, mgr, broken, children, sys_stdout, exitStatus,
                 out, header, diag, cycle, submitted, exc>>

NextLoad == LoadReturn

LoadSpec == InitLoad /\ [][NextLoad]_vars

(***************************************************************************)
(* load_epds with an exclude file: one call on a list file or a pgn file   *)
(* of a few lines or games, with or without an exclude file.               *)
(***************************************************************************)

\* The number of lines (or games) a file of these calls has at most.
MaxLines == 2

\* LineA followed by an opcode, and a line with move counters.
LineAOp == LineA \o <<";", "bm", "a2a3">>
LineCounters == <<"p9", "w", "-", "-", "0", "1", "moves", "a2a3">>

\* The lines of the primary list files and of the exclude files.
PrimaryLines == {LineA, LineAOp, LineB}
ExcludeLines == {LineAOp, LineB, LineCounters}

\* The games of the pgn files: the FEN of the starting position, with its
\* move counters, and the mainline.
PgnGames ==
  {[fen |-> <<"p9", "w", "-", "-", "0", "1">>, moves |-> <<"a2a3">>],
   [fen |-> <<"p8", "b", "-", "-", "0", "1">>, moves |-> <<>>]}

PgnFile(games) == [kind |-> "pgn", readable |-> TRUE, lines |-> <<>>, games |-> games]

\* The sequences over S of at most n elements.
SeqsUpTo(S, n) == UNION {[1..k -> S] : k \in 0..n}

PrimaryFiles ==
  {ListFile(l) : l \in SeqsUpTo(PrimaryLines, MaxLines)}
  \cup {PgnFile(g) : g \in SeqsUpTo(PgnGames, MaxLines)}

ExcludeFiles ==
  {NoFile, Unreadable} \cup {ListFile(l) : l \in SeqsUpTo(ExcludeLines, MaxLines)}

InitExclude ==
  /\ args = [forever |-> FALSE, reload |-> FALSE, shuffle |-> FALSE,
             depthLimit |-> 5, maxDepthLimit |-> NoInt, bulkConcurrency |-> 1,
             plyBegin |-> 0 - 1, plyEnd |-> NoInt, TBsearch |-> FALSE,
             excludeFile |-> NoFile]
  /\ pc = "load_epds"
  /\ first = TRUE
  /\ epdIdx = 0
  /\ epds = <<>>
  /\ depthLimit = NoInt
  /\ task = NoTask
  /\ tasks = <<>>
  /\ tmp = NoInt
  /\ counter = 0
  /\ futs = <<>>
  /\ mgr = [f |-> 0, at |-> "idle", tmp |-> NoInt]
  /\ broken = FALSE
  /\ children = 0
  /\ sys_stdout = "stdout"
  /\ exitStatus = NoInt
  /\ out = <<>>
  /\ header = NoTask
  /\ diag = "none"
  /\ cycle = 0
  /\ submitted = <<>>
  /\ exc = None
  /\ ld \in [phase : {"call"}, file : PrimaryFiles, excludeFile : ExcludeFiles,
              plyBegin : {0, 0 - 1}, result : {{}}]

\* load_epds(filename, excludeFile, plyBegin, None, False) returns.
ExcludeReturn ==
  /\ ld.phase = "call"
  /\ ~load_epds_raises(ld.file, ld.excludeFile)
  /\ ld' = [ld EXCEPT !.phase = "returned",
                      !.result = load_epds(ld.file, ld.excludeFile,
                                           ld.plyBegin, NoInt, FALSE)]
  /\ UNCHANGED <<args, pc, first, epdIdx, epds, depthLimit, task, tasks, tmp,
                 counter, futs, mgr, broken, children, sys_stdout, exitStatus,
                 out, header, diag, cycle, submitted, exc>>

\* load_epds raises: the exclude file of a list file cannot be read.
ExcludeRaise ==
  /\ ld.phase = "call"
  /\ load_epds_raises(ld.file, ld.excludeFile)
  /\ ld' = [ld EXCEPT !.phase = "raised"]
  /\ UNCHANGED <<args, pc, first, epdIdx, epds, depthLimit, task, tasks, tmp,
                 counter, futs, mgr, broken, children, sys_stdout, exitStatus,
                 out, header, diag, cycle, submitted, exc>>

NextExclude == ExcludeReturn \/ ExcludeRaise

ExcludeSpec == InitExclude /\ [][NextExclude]_vars

(***************************************************************************)
(* load_epdlist on its own: one call on a file of one line, for every line *)
(* of four fields followed by further fields and, or not, a moves clause.  *)
(***************************************************************************)

\* The number of fields a line of these files has at most after its first four.
MaxExtraFields == 3

\* The fields that follow the first four: numbers, a dash, an opcode name.
ExtraFields == {"0", "12", "-", "bm"}

\* The lines: four fields, up to MaxExtraFields further ones, and then
\* nothing or a moves clause.
FieldLines ==
  {<<"p9", "w", "-", "-">> \o x \o m :
     x \in SeqsUpTo(ExtraFields, MaxExtraFields), m \in {<<>>, <<"moves", "a2a3">>}}

InitNormalize ==
  /\ args = [forever |-> FALSE, reload |-> FALSE, shuffle |-> FALSE,
             depthLimit |-> 5, maxDepthLimit |-> NoInt, bulkConcurrency |-> 1,
             plyBegin |-> 0 - 1, plyEnd |-> NoInt, TBsearch |-> FALSE,
             excludeFile |-> NoFile]
  /\ pc = "load_epdlist"
  /\ first = TRUE
  /\ epdIdx = 0
  /\ epds = <<>>
  /\ depthLimit = NoInt
  /\ task = NoTask
  /\ tasks = <<>>
  /\ tmp = NoInt
  /\ counter = 0
  /\ futs = <<>>
  /\ mgr = [f |-> 0, at |-> "idle", tmp |-> NoInt]
  /\ broken = FALSE
  /\ children = 0
  /\ sys_stdout = "stdout"
  /\ exitStatus = NoInt
  /\ out = <<>>
  /\ header = NoTask
  /\ diag = "none"
  /\ cycle = 0
  /\ submitted = <<>>
  /\ exc = None
  /\ ld \in [phase : {"call"}, line : FieldLines, epdlist : {<<>>}]

\* load_epdlist(filename) returns epdlist.
NormalizeReturn ==
  /\ ld.phase = "call"
  /\ ld' = [ld EXCEPT !.phase = "returned", !.epdlist = load_epdlist(<<ld.line>>)]
  /\ UNCHANGED <<args, pc, first, epdIdx, epds, depthLimit, task, tasks, tmp,
                 counter, futs, mgr, broken, children, sys_stdout, exitStatus,
                 out, header, diag, cycle, submitted, exc>>

NextNormalize == NormalizeReturn

NormalizeSpec == InitNormalize /\ [][NextNormalize]_vars

(***************************************************************************)
(* Properties of the scheduler, checked under Spec.                        *)
(***************************************************************************)

\* C1: reports are emitted in submission order.  The futures are numbered in
\* the order of their submission, across cycles, so the output is header 1,
\* report (or error line) 1, header 2, report 2, ...: the blocks of task i
\* come before those of task j for i < j, whichever future finishes first.
ReportsInSubmissionOrder ==
  \A i \in 1..Len(out) :
    /\ out[i].future = (i + 1) \div 2
    /\ IF i % 2 = 1
       THEN out[i].kind = "header"
       ELSE out[i].kind \in {"report", "error"}

\* C1, its case: the second task has finished while the first one, whose
\* header is printed, is still running.
SecondFinishedFirst ==
  /\ Len(futs) >= 2
  /\ futs[1].state = "pending"
  /\ futs[2].state = "finished"
  /\ out = <<[kind |-> "header", future |-> 1]>>

\* The futures that are submitted and have not completed.
InFlight == {f \in 1..Len(futs) : futs[f].state = "pending"}

\* C2: the number of tasks submitted to the pool and not yet completed is at
\* most 2 * bulkConcurrency in every state.
InFlightCeiling == Cardinality(InFlight) <= 2 * args.bulkConcurrency

\* C3: a single-pass run whose first load succeeds and that no signal ends,
\* ends by leaving the loop with exit status 0, and has then printed one
\* report or error line for each position of the loaded list.
SinglePassEndsNormally ==
  (~args.forever /\ Ended /\ exc \notin {"LoadError", "SystemExit"}) =>
     /\ pc = "done"
     /\ exitStatus = 0
     /\ Len(out) = 2 * Len(epds)
     /\ \A i \in 1..Len(epds) :
          out[2 * i].future = i /\ out[2 * i].kind \in {"report", "error"}

\* C4: the loop is left by its break only in single-pass mode, with the cursor
\* at the end of the list, an empty deque and no awaited task; with --forever
\* the state after the loop is not reached.
LoopExitOnlyWhenDrained ==
  pc = "done" =>
     /\ ~args.forever
     /\ epdIdx = Len(epds)
     /\ tasks = <<>>
     /\ task = NoTask

\* C4, its case: a single-pass run has left the loop after two reports.
LeftLoopAfterTwoReports == pc = "done" /\ Len(out) = 4

\* The depth of the k-th cycle for start depth a.depthLimit and maximum
\* a.maxDepthLimit, in closed form.
DepthOfCycle(k, a) ==
  IF a.maxDepthLimit # NoInt
  THEN Min(a.depthLimit + k, a.maxDepthLimit)
  ELSE a.depthLimit + k

\* C5: every task of cycle k is submitted with depth min(d0 + k, M), or d0 + k
\* without a maximum, and depthLimit has that value throughout cycle k; so no
\* depth exceeds M, and with M = 7, d0 = 5 the depth is 7 from cycle 2 on.
DepthClamped ==
  /\ \A f \in 1..Len(submitted) :
       submitted[f] # NoTask =>
         submitted[f].depthLimit = DepthOfCycle(submitted[f].cycle, args)
  /\ (pc \in {"top", "await", "inc_read", "inc_write", "dec_read", "dec_write", "done"}
      /\ ~first) => depthLimit = DepthOfCycle(cycle, args)

\* C5, its case: M = 7, d0 = 5 and a task of the third cycle after the first
\* pass is in flight with depth 7.
ClampedInThirdCycle ==
  /\ args.maxDepthLimit = 7
  /\ args.depthLimit = 5
  /\ \E f \in 1..Len(submitted) :
       /\ submitted[f] # NoTask
       /\ submitted[f].cycle = 3
       /\ submitted[f].depthLimit = 7

\* The search of the position submitted for future f raises.
SearchRaises(f) == cdbsearch(submitted[f].epd, submitted[f].depthLimit).raised

\* The number of lines of text equal to line.
CountLine(text, line) == Cardinality({i \in 1..Len(text) : text[i] = line})

\* C6: wrapcdbsearch does not propagate an exception of the search.  A future
\* whose search raised with message msg for position P finishes with a value
\* (unless the pool broke under it), the text holds the error line of P and
\* msg once, sys.stdout of the worker is restored, and the scheduler prints
\* its own error line for no task of a pool that is not broken: it goes on.
WorkerNeverPropagates ==
  /\ sys_stdout = "stdout"
  /\ \A f \in 1..Len(futs) :
       futs[f].state = "finished" =>
         \/ /\ futs[f].result.kind = "value"
            /\ CountLine(futs[f].result.text,
                         ErrorLine(submitted[f].epd, "timeout"))
                 = (IF SearchRaises(f) THEN 1 ELSE 0)
         \/ /\ futs[f].result.kind = "exception"
            /\ futs[f].result.msg = "BrokenProcessPool"
            /\ broken
  /\ \A i \in 1..Len(out) : out[i].kind = "error" => (broken \/ ~Alive)

\* C6, its case: the search of a task raised, its future finished with the
\* text, and the next task has been submitted.
RaisedAndWentOn ==
  \E f \in 1..Len(futs) :
    /\ futs[f].state = "finished"
    /\ SearchRaises(f)
    /\ futs[f].result.kind = "value"
    /\ Len(futs) > f
    /\ futs[f + 1].cb

\* C7: the only fatal events of a run are a failure of the first load and a
\* signal: the program ends otherwise than by leaving its loop only with one
\* of these two.
OnlyLoadAndSignalAreFatal ==
  ~Alive => exc \in {"LoadError", "SystemExit"}

\* C8: a failure of the first load ends the run before anything is submitted;
\* a failure of a later reload is reported, and the step that reports it
\* keeps epds, rewinds the cursor and raises the depth as every cycle does.
LoadFailurePolicy ==
  [][ /\ (pc' = "fatal") =>
           (first /\ futs = <<>> /\ out = <<>> /\ exitStatus' = 1
            /\ exc' = "LoadError")
      /\ (first /\ pc = "top" /\ pc' = "await") =>
           diag' = "Prepared unique EPDs for exploration."
      /\ (cycle' = cycle + 1
          /\ diag' = "Error while trying to reload file. Continue with old EPD list.") =>
           /\ args.forever /\ args.reload /\ ~first
           /\ epds' = epds
           /\ epdIdx' = 0
           /\ depthLimit' = DepthOfCycle(cycle + 1, args)
           /\ pc' = "await"
    ]_vars

\* C8, its case: a reload has failed at a cycle boundary and the new cycle
\* starts on the list kept.
ReloadFailedListKept ==
  /\ diag = "Error while trying to reload file. Continue with old EPD list."
  /\ cycle >= 1
  /\ epds # <<>>
  /\ epdIdx = 0
  /\ pc = "await"

\* C9: once a signal is received and on_sigint has called sys.exit(1), every
\* worker process is terminated and the process exits with status 1.
SignalExits ==
  exc = "SystemExit" => (pc = "killed" /\ exitStatus = 1 /\ children = 0)

\* The main thread is at a cycle boundary after the first pass: the next
\* step is the cycle branch of the loop.
AtCycleBoundary ==
  pc = "top" /\ epdIdx = Len(epds) /\ ~first /\ args.forever

\* The elements of a list.
Elements(q) == {q[i] : i \in 1..Len(q)}

\* C13: with --shuffle the list is shuffled once per cycle: at every cycle
\* boundary, reloaded or not, the order of the new cycle is a freshly chosen
\* permutation, that is, every permutation of the new cycle's set is an order
\* the step may bind epds to; and a task in flight in its cycle was taken
\* from epds at its cursor index.
ShuffledEveryCycle ==
  /\ (AtCycleBoundary /\ args.shuffle) =>
        \A file \in FilesAt(first) :
          LET r == TryLoad(file, first, epds, args)
          IN  \A q \in r.lists : r.lists = Orders(Elements(q), TRUE)
  /\ \A f \in 1..Len(submitted) :
       (submitted[f] # NoTask /\ submitted[f].cycle = cycle
        /\ submitted[f].total = Len(epds)) =>
          \E i \in 1..Len(epds) : submitted[f].epd = epds[i]

\* Neither thread is inside inc() or dec().
NoCounterStep ==
  /\ pc \notin {"inc_read", "inc_write", "dec_read", "dec_write"}
  /\ mgr.at = "idle"

\* C15: the counter is race-free: under every interleaving of the reads and
\* writes of inc() and dec() it is never negative and, whenever neither
\* thread is inside one of them, it equals the number of submitted tasks
\* whose completion hook has not run (the futures still pending).
CounterRaceFree ==
  /\ counter >= 0
  /\ NoCounterStep => counter = Cardinality(InFlight)

\* C16: the depth limit is raised after each completed cycle: when it is
\* raised and the cursor rewound, every task of the cycle that ends has been
\* reported, so every task submitted and not yet reported belongs to the
\* current cycle, and no task of the next cycle is submitted beside it.
CyclesDoNotOverlap ==
  \A f \in 1..Len(submitted) :
    submitted[f] # NoTask => submitted[f].cycle = cycle

\* C17: awaiting the head task does not block submissions.  The poll of the
\* awaited future is bounded, so the main thread comes back to the first if
\* statement of an iteration whatever the head task does; there, whenever the
\* feeder has a next position and the counter is below 2 * bulkConcurrency,
\* the iteration submits a new task, exactly one, unless a signal ends the
\* process at that moment.
SubmitsWhenBelowCeiling ==
  [][ (pc = "top" /\ epdIdx # Len(epds) /\ BelowCeiling /\ pc' # "top") =>
         \/ Len(futs') = Len(futs) + 1
         \/ pc' = "killed"
    ]_vars

\* C19: the progress header of the awaited task names the descriptor that
\* was submitted for it, the depth it was submitted with, its cursor index
\* plus one and the size of the list it was taken from, whatever epds and
\* depthLimit have become since.
HeaderNamesSubmitted ==
  header # NoTask =>
     /\ submitted[header.future] # NoTask
     /\ header.epd = submitted[header.future].epd
     /\ header.depthLimit = submitted[header.future].depthLimit
     /\ header.ordinal = submitted[header.future].epdIdx + 1
     /\ header.total = submitted[header.future].total

\* C19, its case: the header of a task of an earlier cycle is printed, and
\* since its submission a reload has replaced the list by one of another
\* size and the depth limit has been raised.
HeaderAfterReload ==
  /\ header # NoTask
  /\ args.reload
  /\ submitted[header.future].cycle < cycle
  /\ header.total # Len(epds)
  /\ header.depthLimit < depthLimit
  /\ diag = "Prepared unique EPDs for exploration."

\* The submitted tasks whose report has not been printed: those of the deque
\* and the awaited one.
Backlog == Len(tasks) + (IF task # NoTask THEN 1 ELSE 0)

\* C20: the backlog is bounded: in every state the number of submitted tasks
\* not yet reported is at most 2 * bulkConcurrency, also when the head task
\* is slow and tasks behind it complete first.
BacklogBounded == Backlog <= 2 * args.bulkConcurrency

(***************************************************************************)
(* Properties of load_epds, checked under LoadSpec.                        *)
(***************************************************************************)

\* The entry of epdlist of the line of the call, its base position and its
\* valid move tokens.
LdFields == ReplaceStartpos(BeforeOpcodes(ld.line))
LdBase == Take(LdFields, 4)
LdMoves == ValidPrefix(SubSeq(LdFields, 6, Len(LdFields)))

\* The length L of the ply sequence of the line: ply 0 and one ply per move.
LdL == 1 + Len(LdMoves)

\* A window bound b resolved as the claim states it; none is the value of None.
Resolved(b, L, none) ==
  IF b = NoInt THEN none
  ELSE IF b < 0 THEN Max(0, b + L)
  ELSE Min(b, L)

LdB == Resolved(ld.plyBegin, LdL, 0)
LdE == Resolved(ld.plyEnd, LdL, LdL)

\* The descriptor of ply p of the line.
PlyDescriptor(p) ==
  IF p = 0 THEN LdBase ELSE LdBase \o <<"moves">> \o Take(LdMoves, p)

\* The number of pieces on the board at ply p.
PiecesAt(p) ==
  BoardCount(LdBase) - Cardinality({i \in 1..p : LdMoves[i] \in CaptureMoves})

\* The ply at which the tablebase cutoff triggers, LdL when it never does.
CutoffPly ==
  LET hit == {p \in 0..(LdL - 1) : ~ld.TBsearch /\ PiecesAt(p) <= CDB_EGTB}
  IN  IF hit = {} THEN LdL ELSE CHOOSE p \in hit : \A q \in hit : p <= q

\* C10: a line of L plies with window bounds resolved to B <= E contributes
\* the descriptors of plies B .. E-1, E - B of them, unless the tablebase
\* cutoff triggers at an earlier ply: then it contributes the window plies
\* before the cutoff ply only.
PlyWindowCount ==
  (ld.phase = "returned" /\ LdB <= LdE) =>
     /\ ld.result = {PlyDescriptor(p) : p \in {q \in LdB..(LdE - 1) : q < CutoffPly}}
     /\ CutoffPly >= LdE => Cardinality(ld.result) = LdE - LdB
     /\ CutoffPly < LdE =>
          Cardinality(ld.result) = Max(0, CutoffPly - LdB)

\* C10, its case: a window given from the end of a line that holds two plies
\* or more and that the cutoff does not reach.
WindowOfTwoPliesFromEnd ==
  /\ ld.phase = "returned"
  /\ ld.plyBegin # NoInt
  /\ ld.plyBegin < 0
  /\ LdE - LdB >= 2
  /\ CutoffPly >= LdE
  /\ Cardinality(ld.result) = LdE - LdB

\* The descriptor the claim C11 gives for ply p: the base position, " moves"
\* and the first p move tokens, at ply 0 too.
PlyDescriptorWithMoves(p) == LdBase \o <<"moves">> \o Take(LdMoves, p)

\* The call of the scenario: the line "startpos moves e2e4 e7e5", plyBegin 0,
\* plyEnd None, has returned.
StartposScenario ==
  /\ ld.phase = "returned"
  /\ ld.line = StartposLine
  /\ ld.plyBegin = 0
  /\ ld.plyEnd = NoInt

\* C11 as stated: the scenario returns "<startfen> moves", "<startfen> moves
\* e2e4" and "<startfen> moves e2e4 e7e5", and every descriptor a line adds is
\* its base position followed by " moves" and the first p move tokens.
DescriptorsAlwaysCarryMoves ==
  /\ StartposScenario =>
       ld.result = {STARTING_FEN_4 \o <<"moves">>,
                    STARTING_FEN_4 \o <<"moves", "e2e4">>,
                    STARTING_FEN_4 \o <<"moves", "e2e4", "e7e5">>}
  /\ ld.phase = "returned" =>
       \A d \in ld.result : \E p \in 0..Len(LdMoves) : d = PlyDescriptorWithMoves(p)

\* C11 amended: the scenario returns "<startfen>", "<startfen> moves e2e4" and
\* "<startfen> moves e2e4 e7e5"; the descriptor of ply 0 is the base position
\* alone, that of ply p >= 1 the base position, " moves" and the first p move
\* tokens, and no descriptor ends in " moves".
DescriptorsCarryMovesFromPlyOne ==
  /\ StartposScenario =>
       ld.result = {STARTING_FEN_4,
                    STARTING_FEN_4 \o <<"moves", "e2e4">>,
                    STARTING_FEN_4 \o <<"moves", "e2e4", "e7e5">>}
  /\ ld.phase = "returned" =>
       \A d \in ld.result :
         /\ d[Len(d)] # "moves"
         /\ \/ d = LdBase
            \/ \E p \in 1..Len(LdMoves) : d = PlyDescriptorWithMoves(p)

\* C11, its case: the call of the scenario has returned three descriptors.
StartposScenarioReturned == StartposScenario /\ Cardinality(ld.result) = 3

\* The number of pieces of the position a descriptor denotes: those of its
\* base position less the captures among its moves.
PiecesOf(d) ==
  BoardCount(d) - Cardinality({i \in 1..Len(d) : d[i] \in CaptureMoves})

\* C12: without TBsearch the first ply with at most 7 pieces ends the line:
\* neither it nor a later ply is contributed, in the window or not, and no
\* descriptor contributed denotes a position with at most 7 pieces; with
\* TBsearch every ply of the window is contributed whatever its piece count.
CutoffEndsLine ==
  ld.phase = "returned" =>
     /\ ~ld.TBsearch =>
          /\ \A p \in 0..(LdL - 1) : p >= CutoffPly => PlyDescriptor(p) \notin ld.result
          /\ \A d \in ld.result : PiecesOf(d) > CDB_EGTB
     /\ ld.TBsearch =>
          /\ CutoffPly = LdL
          /\ \A p \in 0..(LdL - 1) :
               (LdB <= p /\ p < LdE) => PlyDescriptor(p) \in ld.result

\* C12, its case: the cutoff ply lies inside the window, after plies of the
\* window that the line has contributed.
CutoffInsideWindow ==
  /\ ld.phase = "returned"
  /\ ~ld.TBsearch
  /\ LdB < CutoffPly
  /\ CutoffPly < LdE
  /\ ld.result # {}
  /\ PlyDescriptor(CutoffPly) \notin ld.result

(***************************************************************************)
(* Properties of the exclusion, checked under ExcludeSpec.                 *)
(***************************************************************************)

\* The lines of a list file that load_epdlist reads as positions.
PositionLines(lines) ==
  {lines[i] : i \in {j \in 1..Len(lines) : lines[j] # <<>> /\ Head(lines[j]) # "#"}}

\* The primary lines of the call that the exclude file leaves: those whose
\* normalized form is the normalized form of no line of the exclude file.
KeptLines ==
  {l \in PositionLines(ld.file.lines) :
     ld.excludeFile = NoFile \/
       \A e \in PositionLines(ld.excludeFile.lines) : NormalizeLine(e) # NormalizeLine(l)}

\* C14: in list mode the result is the expansion of exactly the primary lines
\* whose normalized form equals that of no exclude line (a line given twice
\* adds nothing more); in pgn mode the result is that of the call without the
\* exclude file, and no exclude file makes the call fail.
ExclusionByNormalizedLine ==
  /\ (ld.phase = "returned" /\ ld.file.kind = "list") =>
        ld.result = UNION {ExpandEntry(NormalizeLine(l), ld.plyBegin, NoInt, FALSE) :
                             l \in KeptLines}
  /\ (ld.phase = "returned" /\ ld.file.kind = "pgn") =>
        ld.result = UNION {ExpandEntry(GameEntry(ld.file.games[i]), ld.plyBegin, NoInt, FALSE) :
                             i \in 1..Len(ld.file.games)}
  /\ ld.phase = "raised" => ld.file.kind = "list"

\* C14, its case: a list file of two lines, one of them excluded by a line of
\* the exclude file that is written differently, the other kept.
ExcludedByOtherSpelling ==
  /\ ld.phase = "returned"
  /\ ld.file.kind = "list"
  /\ ld.excludeFile # NoFile
  /\ ld.file.lines = <<LineA, LineB>>
  /\ ld.excludeFile.lines = <<LineAOp>>
  /\ ld.result = {LineB}

(***************************************************************************)
(* Properties of load_epdlist, checked under NormalizeSpec.                *)
(***************************************************************************)

\* The fields of the line of the call before its moves clause.
FieldsBeforeMoves ==
  LET k == FirstIdx(ld.line, "moves")
  IN  IF k = 0 THEN ld.line ELSE SubSeq(ld.line, 1, k - 1)

\* The base position of the descriptor the call has returned.
ReturnedBase ==
  LET d == ld.epdlist[1]
      k == FirstIdx(d, "moves")
  IN  IF k = 0 THEN d ELSE SubSeq(d, 1, k - 1)

\* The 5th and the 6th field both exist and are both numeric.
HasCounters ==
  /\ Len(FieldsBeforeMoves) >= 6
  /\ isnumeric(FieldsBeforeMoves[5])
  /\ isnumeric(FieldsBeforeMoves[6])

\* C18: the base position of the descriptor is the first 6 fields before the
\* moves clause only when the 5th and 6th fields both exist and are both
\* numeric; in every other case, a line of exactly 5 fields included, it is
\* the first 4 fields at most.
BaseIsSixOrFourFields ==
  ld.phase = "returned" =>
     /\ Len(ld.epdlist) = 1
     /\ IF HasCounters
        THEN ReturnedBase = Take(FieldsBeforeMoves, 6)
        ELSE ReturnedBase = Take(FieldsBeforeMoves, 4)

====
